---------------------------- MODULE Spec2Model ----------------------------
(***************************************************************************)
(* A model of the segmentation and retrieval pipeline of the RAG           *)
(* repository: rag/chunking.py, rag/embedding.py, rag/vectorstore.py and   *)
(* rag/ingestion.py.                                                       *)
(*                                                                         *)
(* Strings.  A Python str is modelled as its run-length encoding: a        *)
(* sequence of runs [c |-> character, n |-> repetitions], kept canonical   *)
(* (no empty run, no two adjacent runs of one character), so that two      *)
(* strings are equal exactly when their encodings are equal.  A character  *)
(* is named by a TLA+ string: "a", ".", " ", "\n", and "fa1" for the       *)
(* Persian digit one, and so on.  Indices are 0-based as in Python.        *)
(***************************************************************************)
EXTENDS Integers, Sequences, FiniteSets, Bags, TLC

VARIABLES
    \* ---- chunk_text: rag/chunking.py
    doc,              \* the input document, as segments (see RawText)
    language,         \* chunk_text: language
    text,             \* the text the running chunker works on
    pc,               \* position of the chunk_text call
    start,            \* chunk_simple_text: start
    chunks,           \* chunks collected so far (either path)
    windows,          \* history: the [start, end) windows of chunk_simple_text
    sections,         \* chunk_structured_text: sections
    idx,              \* chunk_structured_text: index of the list iterator
    current_chunk,    \* chunk_structured_text: current_chunk
    heading_context,  \* chunk_structured_text: heading_context
    passes,           \* history: completed passes of the section loop
    result,           \* the value chunk_text returned
    \* ---- EmbeddingModel: rag/embedding.py
    embedding_model,  \* the EmbeddingModel whose methods are called
    init_call,        \* history: the arguments of its construction and what loading did
    avail_ret,        \* the last check_model_availability call and what it returned
    single_ret,       \* the last encode_text call and what it returned
    batch_ret,        \* the last encode_texts call and what it returned
    \* ---- VectorStore, DataIngestion: rag/vectorstore.py, rag/ingestion.py
    now,              \* int(time.time())
    generation,       \* the collection now registered under the collection name
    collection,       \* the members of that collection
    stores,           \* the VectorStore instances
    assigned,         \* history: the ids add_documents has assigned since the last delete
    passed,           \* history: chunks handed to add_documents calls that returned
    calls,            \* history: number of store calls made
    ret               \* the last store or ingestion call and its outcome

chunkVars == <<doc, language, text, pc, start, chunks, windows, sections, idx,
               current_chunk, heading_context, passes, result>>

embedVars == <<embedding_model, init_call, avail_ret, single_ret, batch_ret>>

storeVars == <<now, generation, collection, stores, assigned, passed, calls, ret>>

vars == <<chunkVars, embedVars, storeVars>>

\* Python's None
None == "None"

\* the value of a variable that no call has set yet
Unset == <<>>

-----------------------------------------------------------------------------
(* Program constants: rag/config.py *)
CHUNK_SIZE == 500
CHUNK_OVERLAP == 50

-----------------------------------------------------------------------------
(* Python str operations on run-length encoded strings *)

Max2(a, b) == IF a >= b THEN a ELSE b
Min2(a, b) == IF a <= b THEN a ELSE b
SetMax(S) == CHOOSE x \in S : \A y \in S : y <= x
SetMin(S) == CHOOSE x \in S : \A y \in S : x <= y

Run(c, n) == IF n <= 0 THEN <<>> ELSE <<[c |-> c, n |-> n]>>

\* s + t
Cat(s, t) ==
    IF s = <<>> THEN t
    ELSE IF t = <<>> THEN s
    ELSE IF s[Len(s)].c = t[1].c
         THEN SubSeq(s, 1, Len(s) - 1)
              \o <<[c |-> t[1].c, n |-> s[Len(s)].n + t[1].n]>>
              \o Tail(t)
         ELSE s \o t

RECURSIVE FromChars(_)
\* a literal, character by character
FromChars(cs) == IF cs = <<>> THEN <<>> ELSE Cat(Run(cs[1], 1), FromChars(Tail(cs)))

\* the number of characters in the first j runs of s
End(s, j) == BagCardinality([k \in 1..j |-> s[k].n])

\* len(s)
StrLen(s) == End(s, Len(s))

\* the run of s that holds s[i], 0 <= i < len(s)
RunIndex(s, i) == CHOOSE j \in 1..Len(s) : End(s, j - 1) <= i /\ i < End(s, j)

\* s[i], 0 <= i < len(s)
CharAt(s, i) == s[RunIndex(s, i)].c

\* the first k characters of s
Take(s, k) ==
    IF k <= 0 THEN <<>>
    ELSE IF k >= StrLen(s) THEN s
    ELSE LET j == RunIndex(s, k - 1)
         IN SubSeq(s, 1, j - 1) \o <<[c |-> s[j].c, n |-> k - End(s, j - 1)]>>

\* s without its first k characters
Drop(s, k) ==
    IF k <= 0 THEN s
    ELSE IF k >= StrLen(s) THEN <<>>
    ELSE LET j == RunIndex(s, k)
         IN <<[c |-> s[j].c, n |-> End(s, j) - k]>> \o SubSeq(s, j + 1, Len(s))

\* Python's slice index: negative counts from the end, then clamped to [0, len]
SliceIndex(i, n) == IF i < 0 THEN Max2(n + i, 0) ELSE Min2(i, n)

\* s[a:b]
Slice(s, a, b) ==
    LET n == StrLen(s)
        lo == SliceIndex(a, n)
        hi == SliceIndex(b, n)
    IN IF hi <= lo THEN <<>> ELSE Take(Drop(s, lo), hi - lo)

\* s[a:]
SliceFrom(s, a) == Drop(s, SliceIndex(a, StrLen(s)))

Whitespace == {" ", "\n", "\t"}

\* the runs of s that are not whitespace
Inked(s) == {k \in 1..Len(s) : s[k].c \notin Whitespace}

\* s.strip()
Strip(s) ==
    IF Inked(s) = {} THEN <<>> ELSE SubSeq(s, SetMin(Inked(s)), SetMax(Inked(s)))

\* s.lstrip() and s.rstrip()
LStrip(s) == IF Inked(s) = {} THEN <<>> ELSE SubSeq(s, SetMin(Inked(s)), Len(s))
RStrip(s) == IF Inked(s) = {} THEN <<>> ELSE SubSeq(s, 1, SetMax(Inked(s)))

\* the characters of s
CharsOf(s) == {s[k].c : k \in 1..Len(s)}

-----------------------------------------------------------------------------
(* chunk_simple_text and split_large_chunk: the sliding window *)

\* the characters of '.!?\n'
SentenceEnd == {".", "!", "?", "\n"}

\* lines 218-226: end of the window that starts at s, after the look-back
\* for i in range(end, max(start + CHUNK_SIZE - 100, start), -1)
SimpleWindowEnd(t, s) ==
    LET n == StrLen(t)
        end == Min2(s + CHUNK_SIZE, n)
        stop == Max2(s + CHUNK_SIZE - 100, s)
        hits == {i \in (stop + 1)..end : CharAt(t, i) \in SentenceEnd}
    IN IF end < n /\ hits /= {} THEN SetMax(hits) + 1 ELSE end

\* lines 228-230: the chunk of the window that starts at s, appended if not empty
SimpleAppend(cs, t, s) ==
    LET chunk == Strip(Slice(t, s, SimpleWindowEnd(t, s)))
    IN IF chunk /= <<>> THEN Append(cs, chunk) ELSE cs

\* line 231
SimpleAdvance(s) == s + CHUNK_SIZE - CHUNK_OVERLAP


-----------------------------------------------------------------------------
(* LanguageDetector: rag/utils/language_utils.py *)

\* characters of the model's alphabet that persian_pattern matches:
\* the Persian digits, comma, semicolon and question mark, and a letter
PersianDigits == <<"fa0", "fa1", "fa2", "fa3", "fa4", "fa5", "fa6", "fa7", "fa8", "fa9">>
EnglishDigits == <<"0", "1", "2", "3", "4", "5", "6", "7", "8", "9">>
PersianChars == {PersianDigits[k] : k \in 1..10} \cup {"fa,", "fa;", "fa?", "fa_seen"}

\* the characters english_pattern matches: [a-zA-Z]
LatinLetters ==
    {"a", "b", "c", "d", "e", "f", "g", "h", "i", "j", "k", "l", "m", "n", "o", "p",
     "q", "r", "s", "t", "u", "v", "w", "x", "y", "z", "A", "B", "C", "D", "E", "F",
     "G", "H", "I", "J", "K", "L", "M", "N", "O", "P", "Q", "R", "S", "T", "U", "V",
     "W", "X", "Y", "Z"}

\* len(pattern.findall(text)) for a pattern that matches the characters of S
FindAll(s, S) ==
    BagCardinality([k \in {j \in 1..Len(s) : s[j].c \in S} |-> s[k].n])

\* detect_language with Persian-range characters matched wherever they are
DetectLanguageAnyPersian(s) ==
    IF FindAll(s, PersianChars) > 0 THEN "fa"
    ELSE IF FindAll(s, LatinLetters) > 0 THEN "en" ELSE "mixed"

\* detect_language with an arabic_pattern of its own, matching the letter,
\* and a persian_pattern matching the other Persian-range characters
DetectLanguageTwoPatterns(s) ==
    IF s = <<>> \/ Strip(s) = <<>> THEN "en"
    ELSE LET persian_chars == FindAll(s, PersianChars \ {"fa_seen"})
             arabic_chars == FindAll(s, {"fa_seen"})
             english_chars == FindAll(s, LatinLetters)
             total_chars == persian_chars + arabic_chars + english_chars
         IN IF total_chars = 0 THEN "en"
            ELSE IF 10 * persian_chars > 3 * total_chars THEN "fa"
            ELSE IF 10 * arabic_chars > 3 * total_chars THEN "ar"
            ELSE IF 10 * english_chars > 3 * total_chars THEN "en"
            ELSE "mixed"

\* detect_language, lines 28-53; arabic_pattern is persian_pattern, and a
\* ratio exceeds 0.3 when 10 times the count exceeds 3 times the total
detect_language(s) ==
    IF s = <<>> \/ Strip(s) = <<>> THEN "en"
    ELSE LET persian_chars == FindAll(s, PersianChars)
             arabic_chars == FindAll(s, PersianChars)
             english_chars == FindAll(s, LatinLetters)
             total_chars == persian_chars + arabic_chars + english_chars
         IN IF total_chars = 0 THEN "en"
            ELSE IF 10 * persian_chars > 3 * total_chars THEN "fa"
            ELSE IF 10 * arabic_chars > 3 * total_chars THEN "ar"
            ELSE IF 10 * english_chars > 3 * total_chars THEN "en"
            ELSE "mixed"

\* is_persian_text: persian_pattern.search(text)
IsPersianText(s) == CharsOf(s) \cap PersianChars /= {}

\* lines 104-115: the character-wise replacements
NormalizeChar(c) ==
    IF \E k \in 1..10 : PersianDigits[k] = c
    THEN EnglishDigits[CHOOSE k \in 1..10 : PersianDigits[k] = c]
    ELSE IF c = "fa," THEN ","
    ELSE IF c = "fa;" THEN ";"
    ELSE IF c = "fa?" THEN "?"
    ELSE c

\* runs of one character that became adjacent are one run again
Canonical(m) ==
    LET heads == {k \in 1..Len(m) : k = 1 \/ m[k].c /= m[k - 1].c}
        head(i) == CHOOSE k \in heads : Cardinality({x \in heads : x <= k}) = i
        last(k) == SetMin({j \in k..Len(m) : j = Len(m) \/ m[j + 1].c /= m[k].c})
    IN [i \in 1..Cardinality(heads) |->
          [c |-> m[head(i)].c, n |-> End(m, last(head(i))) - End(m, head(i) - 1)]]

ReplaceChars(s) ==
    Canonical([k \in 1..Len(s) |-> [c |-> NormalizeChar(s[k].c), n |-> s[k].n]])

\* normalize_persian_text, lines 101-117
NormalizePersianText(s) ==
    IF ~IsPersianText(s) THEN s ELSE Strip(ReplaceChars(s))

-----------------------------------------------------------------------------
(* Documents.  A document is its text cut at the matches of heading_pattern *)
(* (chunking.py line 48): a sequence of segments, each a run of text or one *)
(* heading marker [HEADING_LEVEL_n]title[/HEADING_LEVEL_n].  No two text    *)
(* segments are adjacent and no text segment holds a whole marker.          *)

TextSeg(s) == [kind |-> "text", text |-> s]
MarkerSeg(level, title) == [kind |-> "marker", level |-> level, title |-> title]

\* the characters of '[HEADING_LEVEL_'
MarkerLiteral ==
    FromChars(<<"[", "H", "E", "A", "D", "I", "N", "G", "_",
                "L", "E", "V", "E", "L", "_">>)

LevelDigit(n) == EnglishDigits[n + 1]

\* the characters of one marker
MarkerText(level, title) ==
    Cat(Cat(Cat(MarkerLiteral, FromChars(<<LevelDigit(level), "]">>)), title),
        Cat(Cat(FromChars(<<"[", "/">>), SliceFrom(MarkerLiteral, 1)),
            FromChars(<<LevelDigit(level), "]">>)))

SegText(g) == IF g.kind = "marker" THEN MarkerText(g.level, g.title) ELSE g.text

RECURSIVE RawText(_)
\* the document as one string
RawText(d) == IF d = <<>> THEN <<>> ELSE Cat(SegText(d[1]), RawText(Tail(d)))

\* lit in s
Contains(s, lit) ==
    \E i \in 0..(StrLen(s) - StrLen(lit)) : Slice(s, i, i + StrLen(lit)) = lit

\* the segments of normalize_persian_text(RawText(d)), for a d with Persian text
NormalizeDoc(d) ==
    LET m == [k \in 1..Len(d) |->
                IF d[k].kind = "marker"
                THEN MarkerSeg(d[k].level, ReplaceChars(d[k].title))
                ELSE TextSeg(ReplaceChars(d[k].text))]
        l == IF m /= <<>> /\ m[1].kind = "text"
             THEN [m EXCEPT ![1] = TextSeg(LStrip(m[1].text))] ELSE m
    IN IF l /= <<>> /\ l[Len(l)].kind = "text"
       THEN [l EXCEPT ![Len(l)] = TextSeg(RStrip(l[Len(l)].text))] ELSE l

\* chunk_text lines 26-27, on the segments
NormalizedDoc(d) == IF IsPersianText(RawText(d)) THEN NormalizeDoc(d) ELSE d

-----------------------------------------------------------------------------
(* chunk_structured_text: rag/chunking.py lines 38-180 *)

Content(s) == [type |-> "content", text |-> s]
Heading(level, s) == [type |-> "heading", level |-> level, text |-> s]

RECURSIVE ParseFrom(_, _, _)
\* lines 54-76: between two matches the stripped text, if any, is a content
\* section; each match is a heading section
ParseFrom(d, pending, acc) ==
    LET flushed == IF Strip(pending) /= <<>>
                   THEN Append(acc, Content(Strip(pending))) ELSE acc
    IN IF d = <<>> THEN flushed
       ELSE IF d[1].kind = "marker"
       THEN ParseFrom(Tail(d), <<>>,
                      Append(flushed, Heading(d[1].level, Strip(d[1].title))))
       ELSE ParseFrom(Tail(d), Cat(pending, d[1].text), acc)

ParseSections(d) == ParseFrom(d, <<>>, <<>>)

\* lines 113-114: at most two newlines in a row, one space in a row
CleanContent(s) ==
    [k \in 1..Len(s) |->
        IF s[k].c = "\n" /\ s[k].n >= 3 THEN [c |-> "\n", n |-> 2]
        ELSE IF s[k].c = " " THEN [c |-> " ", n |-> 1]
        ELSE s[k]]

RECURSIVE JoinTitles(_)
\* " > ".join([h["text"] for h in heading_context])
JoinTitles(hc) ==
    IF hc = <<>> THEN <<>>
    ELSE IF Len(hc) = 1 THEN hc[1].text
    ELSE Cat(hc[1].text, Cat(FromChars(<<" ", ">", " ">>), JoinTitles(Tail(hc))))

\* the characters of '[Section: '
SectionOpen == FromChars(<<"[", "S", "e", "c", "t", "i", "o", "n", ":", " ">>)

\* f"[Section: {heading_prefix}]\n"
SectionLabel(hc) == Cat(Cat(SectionOpen, JoinTitles(hc)), FromChars(<<"]", "\n">>))

\* lines 89-90 and 119-120, 164-165: keep the chunk when its trimmed length
\* exceeds floor
SaveChunk(cs, cur, floor) ==
    IF Strip(cur) /= <<>> /\ StrLen(Strip(cur)) > floor
    THEN Append(cs, Strip(cur)) ELSE cs

\* the push with the headings of the new heading's own level kept
PushKeepsSiblings(hc, sec) ==
    Append(SelectSeq(hc, LAMBDA h : h.level <= sec.level),
           [level |-> sec.level, text |-> sec.text])

\* line 95 and lines 97-100
PushHeading(hc, sec) ==
    Append(SelectSeq(hc, LAMBDA h : h.level < sec.level),
           [level |-> sec.level, text |-> sec.text])

\* lines 129-133: for i in range(min(remaining_space, len(content) - 1),
\*                              max(0, remaining_space - 200), -1)
HeadingSplitPos(content, remaining_space) ==
    LET hits == {i \in (Max2(0, remaining_space - 200) + 1)
                       ..Min2(remaining_space, StrLen(content) - 1) :
                   CharAt(content, i) \in SentenceEnd}
    IN IF hits /= {} THEN SetMax(hits) + 1 ELSE remaining_space

\* lines 146-150: for i in range(CHUNK_SIZE, max(0, CHUNK_SIZE - 200), -1)
PlainSplitPos(content) ==
    LET hits == {i \in (Max2(0, CHUNK_SIZE - 200) + 1)..CHUNK_SIZE :
                   CharAt(content, i) \in SentenceEnd}
    IN IF hits /= {} THEN SetMax(hits) + 1 ELSE CHUNK_SIZE

\* sections.index(section): the first position holding an equal section
IndexOf(secs, sec) == (CHOOSE j \in 1..Len(secs) :
                          secs[j] = sec /\ \A k \in 1..(j - 1) : secs[k] /= sec) - 1

\* list.insert(pos, x), 0 <= pos <= len
Insert(secs, pos, x) == SubSeq(secs, 1, pos) \o <<x>> \o SubSeq(secs, pos + 1, Len(secs))

\* lines 136-140 and 152-156: the remainder goes in after the first section
\* equal to the one in hand
Requeue(secs, sec, content, split_pos) ==
    IF split_pos < StrLen(content)
    THEN Insert(secs, IndexOf(secs, sec) + 1, Content(Strip(SliceFrom(content, split_pos))))
    ELSE secs

\* line 117: len(current_chunk) + len(content) > CHUNK_SIZE * 1.5
Overflows(cur, content) == 2 * (StrLen(cur) + StrLen(content)) > 3 * CHUNK_SIZE

\* lines 190-198 of split_large_chunk
SplitWindowEnd(chunk, s) ==
    LET n == StrLen(chunk)
        end == Min2(s + CHUNK_SIZE, n)
        stop == Max2(s + CHUNK_SIZE - 100, s)
        hits == {i \in (stop + 1)..end : CharAt(chunk, i) \in SentenceEnd}
    IN IF end < n /\ hits /= {} THEN SetMax(hits) + 1 ELSE end

RECURSIVE SplitFrom(_, _, _)
\* lines 189-204 of split_large_chunk
SplitFrom(chunk, s, cs) ==
    IF s >= StrLen(chunk) THEN cs
    ELSE LET sub_chunk == Strip(Slice(chunk, s, SplitWindowEnd(chunk, s)))
         IN SplitFrom(chunk, s + CHUNK_SIZE - CHUNK_OVERLAP,
                      IF sub_chunk /= <<>> THEN Append(cs, sub_chunk) ELSE cs)

\* split_large_chunk giving every piece after the first a label of its own
SplitLabelsPieces(chunk) ==
    LET cs == SplitFrom(chunk, 0, <<>>)
    IN [k \in 1..Len(cs) |->
          IF k = 1 THEN cs[k]
          ELSE Cat(Cat(SectionOpen, Run("+", k)), Cat(FromChars(<<"]", "\n">>), cs[k]))]

split_large_chunk(chunk) == SplitFrom(chunk, 0, <<>>)

RECURSIVE PostProcess(_)
\* lines 168-175
PostProcess(cs) ==
    IF cs = <<>> THEN <<>>
    ELSE (IF StrLen(cs[1]) <= CHUNK_SIZE THEN <<cs[1]>> ELSE split_large_chunk(cs[1]))
         \o PostProcess(Tail(cs))

\* line 178 with the empty chunks removed only
DropEmpty(cs) == SelectSeq(cs, LAMBDA c : Strip(c) /= <<>>)

\* line 178
DropSmall(cs) == SelectSeq(cs, LAMBDA c : Strip(c) /= <<>> /\ StrLen(Strip(c)) > 50)

-----------------------------------------------------------------------------
(* The documents chunk_text is run on *)

MaxShift == 2
MaxLevel == 2
MaxScript == 4

A(n) == Run("a", n)
B(n) == Run("b", n)
Dot == Run(".", 1)

\* texts without markers: a run of a's, a separator, a run of b's, with the
\* separator placed around the window boundaries 450 and 500
PlainTexts ==
    {Cat(Cat(A(n + d), sep), B(m)) :
        n \in {0, 30, 420, 498, 949}, d \in 0..MaxShift,
        sep \in {<<>>, Dot, Run(" ", 1), Run("\n", 2)},
        m \in {0, 1, 80, 200, 600}}

PlainDocs == {<<TextSeg(t)>> : t \in PlainTexts \ {<<>>}} \cup {<<>>}

Titles == {Run("T", 1), Run("U", 2)}

\* section bodies: small, medium, two sentences that fit, and two oversized ones
ContentPool ==
    {A(30), A(120), Cat(Cat(A(300), Dot), B(299)),
     A(800), Cat(Cat(A(450), Dot), B(330))}

\* text before the first heading: none, small, or more than CHUNK_SIZE * 1.5
PreTexts == {<<>>, A(60), Cat(Cat(A(480), Dot), B(420))}

Pre(t) == IF t = <<>> THEN <<>> ELSE <<TextSeg(t)>>

\* a body that is split even under the shortest section label
Oversized(c) == Overflows(SectionLabel(<<[level |-> 1, text |-> Run("T", 1)]>>), c)

\* two headed sections after an optional preamble
Shapes ==
    [p : PreTexts, l1 : 1..MaxLevel, l2 : 1..MaxLevel, t2 : Titles,
     c1 : ContentPool, c2 : ContentPool]

DocOf(s) ==
    Pre(s.p) \o <<MarkerSeg(s.l1, Run("T", 1)), TextSeg(s.c1),
                  MarkerSeg(s.l2, s.t2), TextSeg(s.c2)>>

\* the documents that repeat an oversized body are RepeatDocs
StructDocs ==
    {DocOf(s) : s \in {x \in Shapes :
                         Oversized(x.c2) => (x.p = <<>> /\ x.c1 /= x.c2)}}

\* the same oversized body under two headings
RepeatDocs ==
    {<<MarkerSeg(1, Run("T", 1)), TextSeg(A(738)),
       MarkerSeg(1, Run("T", 1)), TextSeg(A(738))>>}

\* a heading whose section label leaves no room in a chunk: CHUNK_SIZE
\* characters of label, and 200 more
LongTitleDocs ==
    {<<MarkerSeg(1, Run("T", 488)), TextSeg(A(260))>>,
     <<MarkerSeg(1, Run("T", 688)), TextSeg(A(60))>>}

\* short texts of Persian-range characters, a separator and Latin letters
LangTexts ==
    {Cat(Cat(Run(c, p), sep), A(e)) :
        c \in {"fa_seen", "fa1"}, p \in 0..MaxScript, e \in 0..MaxScript,
        sep \in {<<>>, Run(" ", 1), Run("1", 2)}}

LangDocs == {<<TextSeg(t)>> : t \in LangTexts \ {<<>>}}

\* three headed sections of any levels, one level deeper than Shapes goes
NestedDocs ==
    {<<MarkerSeg(l1, Run("T", 1)), TextSeg(A(60)),
       MarkerSeg(l2, Run("U", 2)), TextSeg(A(60)),
       MarkerSeg(l3, Run("T", 1)), TextSeg(A(60))>> :
        l1 \in 1..(MaxLevel + 1), l2 \in 1..(MaxLevel + 1), l3 \in 1..(MaxLevel + 1)}

\* a heading with nothing or next to nothing under it, a section whose
\* chunk is one character over CHUNK_SIZE with a blank line before its last
\* 49 characters, and the opening of a marker that is never closed
FloorDocs ==
    {<<MarkerSeg(1, Run("T", 1))>>,
     <<MarkerSeg(1, Run("T", 1)), TextSeg(A(5))>>,
     <<MarkerSeg(1, Run("T", 1)), TextSeg(Cat(Cat(A(437), Run("\n", 2)), B(49)))>>,
     <<TextSeg(Cat(MarkerLiteral, A(60)))>>}

Docs ==
    PlainDocs \cup StructDocs \cup RepeatDocs \cup LongTitleDocs \cup LangDocs
        \cup NestedDocs \cup FloorDocs

\* The section loop hands a remainder back only after taking at least one
\* character of the section it split, so a traversal that ends makes at most
\* one pass per parsed section and one per character of content.
RECURSIVE ContentChars(_)
ContentChars(secs) ==
    IF secs = <<>> THEN 0
    ELSE (IF secs[1].type = "content" THEN StrLen(secs[1].text) ELSE 0)
         + ContentChars(Tail(secs))

PassBound(d) ==
    LET secs == ParseSections(NormalizedDoc(d))
    IN Len(secs) + ContentChars(secs)

-----------------------------------------------------------------------------
(* The parts of the state a specification does not exercise stay as built *)

EmbedIdle ==
    /\ embedding_model = Unset
    /\ init_call = Unset
    /\ avail_ret = Unset
    /\ single_ret = Unset
    /\ batch_ret = Unset

StoreIdle ==
    /\ now = 0
    /\ generation = 0
    /\ collection = {}
    /\ stores = Unset
    /\ assigned = EmptyBag
    /\ passed = 0
    /\ calls = 0
    /\ ret = Unset

ChunkIdle ==
    /\ doc = <<>>
    /\ language = None
    /\ text = <<>>
    /\ pc = "idle"
    /\ start = 0
    /\ chunks = <<>>
    /\ windows = <<>>
    /\ sections = <<>>
    /\ idx = 0
    /\ current_chunk = <<>>
    /\ heading_context = <<>>
    /\ passes = 0
    /\ result = <<>>

-----------------------------------------------------------------------------
(* chunk_text as a state machine *)

InitChunk ==
    /\ doc \in Docs
    /\ language = None
    /\ text = <<>>
    /\ pc = "call"
    /\ start = 0
    /\ chunks = <<>>
    /\ windows = <<>>
    /\ sections = <<>>
    /\ idx = 0
    /\ current_chunk = <<>>
    /\ heading_context = <<>>
    /\ passes = 0
    /\ result = <<>>
    /\ EmbedIdle
    /\ StoreIdle

\* chunk_text, lines 23-35
ChunkText ==
    /\ pc = "call"
    /\ language' = detect_language(RawText(doc))
    /\ text' = NormalizePersianText(RawText(doc))
    /\ pc' = IF Contains(text', MarkerLiteral) THEN "structured" ELSE "simple"
    /\ UNCHANGED <<doc, start, chunks, windows, sections, idx, current_chunk,
                   heading_context, passes, result>>
    /\ UNCHANGED <<embedVars, storeVars>>

\* chunk_structured_text, lines 44-84
StructParse ==
    /\ pc = "structured"
    /\ sections' = ParseSections(NormalizedDoc(doc))
    /\ pc' = IF sections' = <<>> THEN "simple" ELSE "loop"
    /\ idx' = 0
    /\ chunks' = <<>>
    /\ current_chunk' = <<>>
    /\ heading_context' = <<>>
    /\ UNCHANGED <<doc, language, text, start, windows, passes, result>>
    /\ UNCHANGED <<embedVars, storeVars>>

\* one pass of the loop of line 86 over a heading, lines 87-107
StructHeading ==
    /\ pc = "loop"
    /\ idx < Len(sections)
    /\ passes <= PassBound(doc)
    /\ LET section == sections[idx + 1]
       IN /\ section.type = "heading"
          /\ chunks' = SaveChunk(chunks, current_chunk, 50)
          /\ heading_context' = PushHeading(heading_context, section)
          /\ current_chunk' = SectionLabel(heading_context')
    /\ idx' = idx + 1
    /\ passes' = passes + 1
    /\ UNCHANGED <<doc, language, text, pc, start, windows, sections, result>>
    /\ UNCHANGED <<embedVars, storeVars>>

\* one pass of the loop of line 86 over a content section, lines 108-161
StructContent ==
    /\ pc = "loop"
    /\ idx < Len(sections)
    /\ passes <= PassBound(doc)
    /\ LET section == sections[idx + 1]
           content == CleanContent(section.text)
           label == SectionLabel(heading_context)
           remaining_space == CHUNK_SIZE - StrLen(label)
           hsplit == HeadingSplitPos(content, remaining_space)
           psplit == PlainSplitPos(content)
       IN /\ section.type = "content"
          /\ IF Overflows(current_chunk, content)
             THEN /\ chunks' = SaveChunk(chunks, current_chunk, 100)
                  /\ IF heading_context /= <<>>
                     THEN IF StrLen(content) > remaining_space
                          THEN /\ current_chunk' =
                                    Cat(label, Strip(Slice(content, 0, hsplit)))
                               /\ sections' = Requeue(sections, section, content, hsplit)
                          ELSE /\ current_chunk' = Cat(label, content)
                               /\ sections' = sections
                     ELSE IF StrLen(content) > CHUNK_SIZE
                          THEN /\ current_chunk' = Strip(Slice(content, 0, psplit))
                               /\ sections' = Requeue(sections, section, content, psplit)
                          ELSE /\ current_chunk' = content
                               /\ sections' = sections
             ELSE /\ current_chunk' = Cat(Cat(current_chunk, content), Run("\n", 1))
                  /\ chunks' = chunks
                  /\ sections' = sections
    /\ idx' = idx + 1
    /\ passes' = passes + 1
    /\ UNCHANGED <<doc, language, text, pc, start, windows, heading_context, result>>
    /\ UNCHANGED <<embedVars, storeVars>>

\* the value of line 178
FinalChunks == DropSmall(PostProcess(SaveChunk(chunks, current_chunk, 50)))

\* lines 163-180 returning final_chunks also when it is empty
StructFinishNoFallback ==
    /\ pc = "loop"
    /\ idx >= Len(sections)
    /\ result' = FinalChunks
    /\ pc' = "done"
    /\ chunks' = SaveChunk(chunks, current_chunk, 50)
    /\ UNCHANGED <<doc, language, text, start, windows, sections, idx, current_chunk,
                   heading_context, passes>>
    /\ UNCHANGED <<embedVars, storeVars>>

\* the loop is over: lines 163-180
StructFinish ==
    /\ pc = "loop"
    /\ idx >= Len(sections)
    /\ IF FinalChunks /= <<>>
       THEN /\ result' = FinalChunks
            /\ pc' = "done"
            /\ chunks' = SaveChunk(chunks, current_chunk, 50)
       ELSE /\ result' = result
            /\ pc' = "simple"
            /\ chunks' = <<>>
    /\ UNCHANGED <<doc, language, text, start, windows, sections, idx, current_chunk,
                   heading_context, passes>>
    /\ UNCHANGED <<embedVars, storeVars>>

\* one pass of the loop of chunk_simple_text, lines 217-231
SimpleStep ==
    /\ pc = "simple"
    /\ start < StrLen(text)
    /\ chunks' = SimpleAppend(chunks, text, start)
    /\ windows' = Append(windows, [start |-> start, end |-> SimpleWindowEnd(text, start)])
    /\ start' = SimpleAdvance(start)
    /\ UNCHANGED <<doc, language, text, pc, sections, idx, current_chunk, heading_context,
                   passes, result>>
    /\ UNCHANGED <<embedVars, storeVars>>

\* chunk_simple_text, line 233
SimpleReturn ==
    /\ pc = "simple"
    /\ start >= StrLen(text)
    /\ result' = chunks
    /\ pc' = "done"
    /\ UNCHANGED <<doc, language, text, start, chunks, windows, sections, idx, current_chunk,
                   heading_context, passes>>
    /\ UNCHANGED <<embedVars, storeVars>>

NextChunk ==
    \/ ChunkText
    \/ StructParse
    \/ StructHeading
    \/ StructContent
    \/ StructFinish
    \/ SimpleStep
    \/ SimpleReturn

SpecChunk == InitChunk /\ [][NextChunk]_vars

-----------------------------------------------------------------------------
(* EmbeddingModel: rag/embedding.py.  A model name is the sequence of its  *)
(* parts between colons: "all-minilm:latest" is <<"all-minilm", "latest">>. *)
(* A vector is its length and whether every component is 0.0.              *)

EMBEDDING_MODEL == <<"sentence-transformers", "paraphrase-multilingual-MiniLM-L12-v2">>
EMBEDDING_PROVIDER == "sentence-transformers"
OLLAMA_EMBEDDING_MODEL == <<"all-minilm", "latest">>

\* the length of the vectors the embedding backend computes with a model
BackendDimension(model_name) ==
    IF model_name \in {<<"nomic-embed-text">>, <<"all-mpnet-base-v2">>} THEN 768 ELSE 384

Embedding(n) == [dim |-> n, zero |-> FALSE]
ZeroVector(n) == [dim |-> n, zero |-> TRUE]

\* the provider __init__ dispatches on at line 31: lines 20-28
Provider(model_name, provider) ==
    LET provider0 == IF provider /= None THEN provider ELSE EMBEDDING_PROVIDER
        name0 == IF model_name /= None THEN model_name ELSE EMBEDDING_MODEL
    IN IF Len(name0) > 1 THEN name0[1] ELSE provider0

\* the except clauses of lines 38 and 45: what they catch
Caught(load) == load \in {"ImportError", "Exception"}

\* the fallback the except clauses must build; here the configured names are
\* left as they were requested
EmbeddingInitKeepsName(model_name, provider, load) ==
    LET name0 == IF model_name /= None THEN model_name ELSE EMBEDDING_MODEL
    IN [provider |-> "ollama",
        model_name |-> IF Len(name0) > 1 THEN Tail(name0) ELSE name0,
        model |-> None, client |-> "Client"]

\* __init__, lines 20-55; load is what importing and loading the model did
EmbeddingInit(model_name, provider, load) ==
    LET provider0 == IF provider /= None THEN provider ELSE EMBEDDING_PROVIDER
        name0 == IF model_name /= None THEN model_name ELSE EMBEDDING_MODEL
        provider1 == IF Len(name0) > 1 THEN name0[1] ELSE provider0
        name1 == IF Len(name0) > 1 THEN Tail(name0) ELSE name0
    IN IF provider1 = "sentence-transformers"
       THEN IF load = "ok"
            THEN [provider |-> provider1, model_name |-> name1,
                  model |-> "SentenceTransformer", client |-> None]
            ELSE [provider |-> "ollama", model_name |-> OLLAMA_EMBEDDING_MODEL,
                  model |-> None, client |-> "Client"]
       ELSE [provider |-> provider1, model_name |-> name1,
             model |-> None, client |-> "Client"]

\* the condition of lines 69 and 105
UsesSentenceTransformers(e) ==
    e.provider = "sentence-transformers" /\ e.model /= None

\* encode_text, lines 69-91; ok is whether the backend call succeeded
EncodeText(e, ok) ==
    IF UsesSentenceTransformers(e)
    THEN IF ok THEN Embedding(BackendDimension(e.model_name)) ELSE ZeroVector(384)
    ELSE IF ok THEN Embedding(BackendDimension(e.model_name)) ELSE ZeroVector(384)

\* encode_texts, lines 105-128; batch_ok is whether the batch call succeeded,
\* oks[i] whether the single call for texts[i] did
EncodeTexts(e, texts, oks, batch_ok) ==
    IF UsesSentenceTransformers(e)
    THEN IF batch_ok
         THEN [i \in 1..Len(texts) |-> Embedding(BackendDimension(e.model_name))]
         ELSE [i \in 1..Len(texts) |-> ZeroVector(384)]
    ELSE [i \in 1..Len(texts) |-> EncodeText(e, oks[i])]

\* An entry of the list client.list() returns under 'models': a dict with a
\* 'name', a str, or anything else (kind "other", which has no name).
DictEntry(name) == [kind |-> "dict", name |-> name]
StrEntry(name) == [kind |-> "str", name |-> name]
OtherEntry == [kind |-> "other", name |-> None]

\* available_models, lines 160-165
AvailableModels(listing) ==
    {listing[i].name : i \in {j \in 1..Len(listing) : listing[j].kind \in {"dict", "str"}}}

\* what client.list() did: it raised, or returned models under 'models'
ListRaised == [raised |-> TRUE, models |-> <<>>]
Listed(models) == [raised |-> FALSE, models |-> models]

\* check_model_availability, lines 153-168
CheckModelAvailability(e, listing) ==
    IF e.provider = "sentence-transformers"
    THEN e.model /= None
    ELSE IF listing.raised THEN FALSE
         ELSE e.model_name \in AvailableModels(listing.models)

MaxTexts == 2
MaxModels == 2

Texts == {"p", "q"}

TextLists == UNION {[1..n -> Texts] : n \in 0..MaxTexts}

\* the constructor arguments: the defaults, models named in main.py, and a
\* tagged Ollama name
ModelArgs ==
    {[model_name |-> None, provider |-> None],
     [model_name |-> <<"all-mpnet-base-v2">>, provider |-> "sentence-transformers"],
     [model_name |-> <<"nomic-embed-text">>, provider |-> "ollama"],
     [model_name |-> <<"all-minilm", "latest">>, provider |-> "ollama"],
     [model_name |-> <<"sentence-transformers", "all-MiniLM-L6-v2">>, provider |-> None],
     [model_name |-> <<"nomic-embed-text">>, provider |-> None]}

Loads == {"ok", "ImportError", "Exception"}

EmbeddingModels ==
    {EmbeddingInit(a.model_name, a.provider, l) : a \in ModelArgs, l \in Loads}

InitEmbed ==
    /\ \E a \in ModelArgs, l \in Loads :
          /\ embedding_model = EmbeddingInit(a.model_name, a.provider, l)
          /\ init_call = [model_name |-> a.model_name, provider |-> a.provider,
                          load |-> l, raised |-> l /= "ok" /\ ~Caught(l)]
    /\ avail_ret = Unset
    /\ single_ret = Unset
    /\ batch_ret = Unset
    /\ ChunkIdle
    /\ StoreIdle

\* a call of encode_text
EncodeTextCall ==
    \E t \in Texts, ok \in BOOLEAN :
        /\ single_ret' = [text |-> t, ok |-> ok, vector |-> EncodeText(embedding_model, ok)]
        /\ UNCHANGED <<embedding_model, init_call, avail_ret, batch_ret, chunkVars, storeVars>>

\* a call of encode_texts
EncodeTextsCall ==
    \E ts \in TextLists, batch_ok \in BOOLEAN :
        \E oks \in [1..Len(ts) -> BOOLEAN] :
            /\ batch_ret' = [texts |-> ts,
                             vectors |-> EncodeTexts(embedding_model, ts, oks, batch_ok)]
            /\ UNCHANGED <<embedding_model, init_call, avail_ret, single_ret, chunkVars, storeVars>>

\* the entries a service lists
ListedEntries ==
    {DictEntry(<<"nomic-embed-text", "latest">>), StrEntry(<<"nomic-embed-text">>),
     OtherEntry}

Listings ==
    {ListRaised} \cup {Listed(ms) : ms \in UNION {[1..n -> ListedEntries] : n \in 0..MaxModels}}

\* a call of check_model_availability
CheckModelAvailabilityCall ==
    \E listing \in Listings :
        /\ avail_ret' = [listing |-> listing,
                         value |-> CheckModelAvailability(embedding_model, listing)]
        /\ UNCHANGED <<embedding_model, init_call, single_ret, batch_ret,
                       chunkVars, storeVars>>

NextEmbed ==
    \/ EncodeTextCall
    \/ EncodeTextsCall
    \/ CheckModelAvailabilityCall

SpecEmbed == InitEmbed /\ [][NextEmbed]_vars

-----------------------------------------------------------------------------
(* VectorStore and DataIngestion: rag/vectorstore.py, rag/ingestion.py.    *)
(* The collection kept by the store driver is the set of its members       *)
(* [id, document, embedding]; the id "doc_<base_id>_<i>" is <<base_id, i>>. *)
(* A VectorStore holds the collection it got from the driver as the        *)
(* generation of that collection under the collection name.                *)

MaxClock == 1
MaxCalls == 2
MaxDeletes == 1
TOP_K == 3

\* the instances api.py builds: the retriever's and the ingestion's
Stores == {"retriever", "ingestion"}

\* what a call into the store driver does
DriverOutcomes == {"ok", "raise"}

\* VectorStore.__init__, lines 20-32
VectorStoreInit(embedding_model_arg, embedding_provider, load) ==
    [collection_name |-> "student_rag",
     collection |-> 0,
     embedding_model |->
         IF embedding_model_arg /= None
         THEN EmbeddingInit(embedding_model_arg, embedding_provider, load)
         ELSE EmbeddingInit(None, None, load)]

StoreArgs ==
    {[model_name |-> None, provider |-> None],
     [model_name |-> <<"nomic-embed-text">>, provider |-> "ollama"]}

VectorStores ==
    {VectorStoreInit(a.model_name, a.provider, "ok") : a \in StoreArgs}

\* the lists of chunks handed to add_documents
Batches == {<<>>, <<"p">>, <<"p", "q">>}

\* the ids of line 46
DocIds(base_id, n) == [i \in 1..n |-> <<base_id, i - 1>>]

Ids(c) == {m.id : m \in c}

\* collection.add, lines 48-52: the driver keeps the member it has under an
\* id that is already there
CollectionAdd(c, by, documents, embeddings, ids) ==
    c \cup {m \in {[id |-> ids[i], document |-> documents[i],
                    embedding |-> embeddings[i], by |-> by] :
                       i \in 1..Len(documents)} : m.id \notin Ids(c)}

\* add_documents raises when the driver does; the driver does when the
\* collection the store holds is no longer there
AddRaises(s, drv) == drv = "raise" \/ stores[s].collection /= generation

\* add_documents, lines 40-53
Add(s, cs, oks, batch_ok, drv) ==
    LET embeddings == EncodeTexts(stores[s].embedding_model, cs, oks, batch_ok)
        base_id == now
        ids == DocIds(base_id, Len(cs))
    IN /\ assigned' = assigned (+) SetToBag({ids[i] : i \in 1..Len(cs)})
       /\ IF AddRaises(s, drv)
          THEN UNCHANGED <<collection, passed>>
          ELSE /\ collection' = CollectionAdd(collection, s, cs, embeddings, ids)
               /\ passed' = passed + Len(cs)

InitStore ==
    /\ now = 0
    /\ generation = 0
    /\ collection = {}
    /\ stores \in [Stores -> VectorStores]
    /\ assigned = EmptyBag
    /\ passed = 0
    /\ calls = 0
    /\ ret = Unset
    /\ ChunkIdle
    /\ EmbedIdle

\* the clock reaches the next whole second
Tick ==
    /\ now < MaxClock
    /\ now' = now + 1
    /\ UNCHANGED <<generation, collection, stores, assigned, passed, calls, ret>>
    /\ UNCHANGED <<chunkVars, embedVars>>

\* a call of add_documents
AddDocuments ==
    \E s \in Stores, cs \in Batches, batch_ok \in BOOLEAN, drv \in DriverOutcomes :
        \E oks \in [1..Len(cs) -> BOOLEAN] :
            /\ calls < MaxCalls
            /\ Add(s, cs, oks, batch_ok, drv)
            /\ ret' = [op |-> "add_documents", store |-> s,
                       raised |-> AddRaises(s, drv), value |-> None]
            /\ calls' = calls + 1
            /\ UNCHANGED <<now, generation, stores, chunkVars, embedVars>>

\* the stores when store s did not take the collection made anew
Stale(s) == stores

\* the stores when every store takes the collection made anew
RecreatedForAll(s) ==
    [t \in Stores |-> [stores[t] EXCEPT !.collection = generation + 1]]

\* the stores after line 77 gave store s the collection made anew
Recreated(s) == [stores EXCEPT ![s].collection = generation + 1]

\* a call of delete_collection, lines 73-83; drv is what
\* client.delete_collection did and drv2 what get_or_create_collection did
DeleteCollection ==
    \E s \in Stores, drv \in DriverOutcomes, drv2 \in DriverOutcomes :
        /\ generation < MaxDeletes
        /\ IF drv = "raise"
           THEN /\ ret' = [op |-> "delete_collection", store |-> s, failed |-> TRUE,
                           raised |-> FALSE, value |-> FALSE]
                /\ UNCHANGED <<generation, collection, stores, assigned, passed>>
           ELSE /\ generation' = generation + 1
                /\ collection' = {}
                /\ assigned' = EmptyBag
                /\ passed' = 0
                /\ IF drv2 = "raise"
                   THEN /\ UNCHANGED stores
                        /\ ret' = [op |-> "delete_collection", store |-> s,
                                   failed |-> TRUE, raised |-> FALSE, value |-> FALSE]
                   ELSE /\ stores' = Recreated(s)
                        /\ ret' = [op |-> "delete_collection", store |-> s,
                                   failed |-> FALSE, raised |-> FALSE, value |-> TRUE]
        /\ UNCHANGED <<now, calls, chunkVars, embedVars>>

\* the members in the order the driver ranks them for a query, nearest
\* first; vectors being abstract, the order of the ids stands for it
Ranking(c) ==
    [i \in 1..Cardinality(c) |->
        CHOOSE m \in c :
            Cardinality({m2 \in c : \/ m2.id[1] < m.id[1]
                                    \/ m2.id[1] = m.id[1] /\ m2.id[2] < m.id[2]}) = i - 1]

\* collection.query, lines 61-64: one list of documents for the one query
\* embedding, of the n_results nearest members or of all when there are fewer
CollectionQuery(c, query_embeddings, n_results) ==
    [documents |->
        [q \in 1..Len(query_embeddings) |->
            [i \in 1..Min2(n_results, Cardinality(c)) |-> Ranking(c)[i].document]]]

\* query with n_results fixed to the default of line 55
QueryIgnoresTopK(s, ok, drv, top_k) ==
    IF AddRaises(s, drv)
    THEN [raised |-> TRUE, value |-> None]
    ELSE [raised |-> FALSE,
          value |-> CollectionQuery(collection,
                        <<EncodeText(stores[s].embedding_model, ok)>>, 3).documents[1]]

\* query, lines 60-67; it raises when the driver does, as add_documents
Query(s, ok, drv, top_k) ==
    LET query_embedding == EncodeText(stores[s].embedding_model, ok)
    IN IF AddRaises(s, drv)
       THEN [raised |-> TRUE, value |-> None]
       ELSE [raised |-> FALSE,
             value |-> CollectionQuery(collection, <<query_embedding>>, top_k).documents[1]]

\* the values of top_k
TopKs == {1, TOP_K}

\* a call of query
QueryCall ==
    \E s \in Stores, ok \in BOOLEAN, drv \in DriverOutcomes, k \in TopKs :
        /\ ret' = [op |-> "query", store |-> s, top_k |-> k,
                   failed |-> AddRaises(s, drv),
                   raised |-> Query(s, ok, drv, k).raised,
                   value |-> Query(s, ok, drv, k).value]
        /\ UNCHANGED <<now, generation, collection, stores, assigned, passed, calls>>
        /\ UNCHANGED <<chunkVars, embedVars>>

\* get_collection_stats without its except clause
StatsRaises(s, drv) ==
    IF AddRaises(s, drv)
    THEN [raised |-> TRUE, value |-> None]
    ELSE [raised |-> FALSE,
          value |-> [collection_name |-> stores[s].collection_name,
                     total_documents |-> Cardinality(collection),
                     status |-> "active"]]

\* get_collection_stats, lines 89-102
GetCollectionStats(s, drv) ==
    IF AddRaises(s, drv)
    THEN [raised |-> FALSE,
          value |-> [collection_name |-> stores[s].collection_name,
                     total_documents |-> 0,
                     status |-> "error", error |-> "str(e)"]]
    ELSE [raised |-> FALSE,
          value |-> [collection_name |-> stores[s].collection_name,
                     total_documents |-> Cardinality(collection),
                     status |-> "active"]]

\* a call of get_collection_stats; drv is what the driver does with a count on
\* a collection that is there; after_delete: the call before it was a
\* delete_collection of the same store that returned True
GetCollectionStatsCall ==
    \E s \in Stores, drv \in DriverOutcomes :
        /\ ret' = [op |-> "get_collection_stats", store |-> s, drv |-> drv,
                   failed |-> AddRaises(s, drv),
                   after_delete |-> /\ ret /= Unset
                                    /\ ret.op = "delete_collection"
                                    /\ ret.store = s
                                    /\ ret.value = TRUE,
                   raised |-> GetCollectionStats(s, drv).raised,
                   value |-> GetCollectionStats(s, drv).value]
        /\ UNCHANGED <<now, generation, collection, stores, assigned, passed, calls>>
        /\ UNCHANGED <<chunkVars, embedVars>>

\* retrieve_relevant_documents without its except clause
RetrievePropagates(ok, drv, top_k) == Query("retriever", ok, drv, top_k)

\* retrieve_relevant_documents, retriever.py lines 29-34
retrieve_relevant_documents(ok, drv, top_k) ==
    LET documents == Query("retriever", ok, drv, top_k)
    IN IF documents.raised
       THEN [raised |-> FALSE, value |-> <<>>]
       ELSE [raised |-> FALSE, value |-> documents.value]

\* a call of retrieve_relevant_documents
Retrieve ==
    \E ok \in BOOLEAN, drv \in DriverOutcomes, k \in TopKs :
        /\ ret' = [op |-> "retrieve_relevant_documents", store |-> "retriever",
                   top_k |-> k, failed |-> AddRaises("retriever", drv),
                   raised |-> retrieve_relevant_documents(ok, drv, k).raised,
                   value |-> retrieve_relevant_documents(ok, drv, k).value]
        /\ UNCHANGED <<now, generation, collection, stores, assigned, passed, calls>>
        /\ UNCHANGED <<chunkVars, embedVars>>

\* the file types ingest_from_directory loads
SupportedTypes == {"txt", "pdf", "docx"}

\* the file_types argument
FileTypeLists == {None, <<"txt">>, <<"csv", "pdf">>}

\* A text is modelled by the chunks chunk_text makes of it.  A loader raises
\* or returns the texts of the files it found.
LoaderOutcomes == {"raise", <<>>, <<<<"p">>>>, <<<<"q">>>>}

\* results, lines 41-47, with all_texts
NoResults ==
    [all_texts |-> <<>>, total_files |-> 0, successful_files |-> 0,
     failed_files |-> 0, total_chunks |-> 0, file_types_processed |-> <<>>]

RECURSIVE LoadAllStopsAtFailure(_, _, _)
\* the loop of lines 52-71 with the try around the loop, not inside it
LoadAllStopsAtFailure(file_types, loader, results) ==
    IF file_types = <<>> THEN results
    ELSE LET file_type == Head(file_types)
             texts == loader[file_type]
         IN IF file_type \notin SupportedTypes
            THEN LoadAllStopsAtFailure(Tail(file_types), loader, results)
            ELSE IF texts = "raise"
                 THEN [results EXCEPT !.failed_files = @ + 1]
                 ELSE LoadAllStopsAtFailure(Tail(file_types), loader,
                          [results EXCEPT
                             !.all_texts = @ \o texts,
                             !.file_types_processed = Append(@, file_type),
                             !.successful_files = @ + Len(texts)])

RECURSIVE LoadAll(_, _, _)
\* the loop of lines 52-71
LoadAll(file_types, loader, results) ==
    IF file_types = <<>> THEN results
    ELSE LET file_type == Head(file_types)
             texts == loader[file_type]
         IN LoadAll(Tail(file_types), loader,
                IF file_type \notin SupportedTypes THEN results
                ELSE IF texts = "raise"
                     THEN [results EXCEPT !.failed_files = @ + 1]
                     ELSE [results EXCEPT
                             !.all_texts = @ \o texts,
                             !.file_types_processed = Append(@, file_type),
                             !.successful_files = @ + Len(texts)])

RECURSIVE chunk_multiple_texts(_)
\* chunk_multiple_texts, lines 247-250
chunk_multiple_texts(texts) ==
    IF texts = <<>> THEN <<>> ELSE Head(texts) \o chunk_multiple_texts(Tail(texts))

\* the dictionary ingest_from_directory returns
Results(r) ==
    [total_files |-> r.total_files, successful_files |-> r.successful_files,
     failed_files |-> r.failed_files, total_chunks |-> r.total_chunks,
     file_types_processed |-> r.file_types_processed]

\* a call of ingest_from_directory on the ingestion's store, lines 37-86; ret
\* keeps the arguments, what the loaders did, results as it stood at line 80
\* and the chunks handed to add_documents (None when it was not called)
IngestFromDirectory ==
    \E arg \in FileTypeLists, batch_ok \in BOOLEAN, drv \in DriverOutcomes :
        LET file_types == IF arg = None THEN <<"txt", "pdf", "docx">> ELSE arg
        IN \E loader \in [{file_types[i] : i \in 1..Len(file_types)} -> LoaderOutcomes] :
             LET loaded == LoadAll(file_types, loader, NoResults)
                 cs == chunk_multiple_texts(loaded.all_texts)
                 counted == [loaded EXCEPT !.total_chunks = Len(cs)]
             IN \E oks \in [1..Len(cs) -> BOOLEAN] :
                  /\ calls < MaxCalls
                  /\ IF loaded.all_texts /= <<>>
                     THEN /\ Add("ingestion", cs, oks, batch_ok, drv)
                          /\ ret' = [op |-> "ingest_from_directory",
                                     store |-> "ingestion",
                                     file_types |-> file_types, loader |-> loader,
                                     results |-> Results(counted), chunks |-> cs,
                                     raised |-> AddRaises("ingestion", drv),
                                     value |-> IF AddRaises("ingestion", drv)
                                               THEN None ELSE Results(counted)]
                     ELSE /\ UNCHANGED <<collection, assigned, passed>>
                          /\ ret' = [op |-> "ingest_from_directory",
                                     store |-> "ingestion",
                                     file_types |-> file_types, loader |-> loader,
                                     results |-> Results(loaded), chunks |-> None,
                                     raised |-> FALSE,
                                     value |-> Results(loaded)]
                  /\ calls' = calls + 1
                  /\ UNCHANGED <<now, generation, stores, chunkVars, embedVars>>

\* the extensions of the file_path argument of ingest_single_file
Extensions == {".txt", ".pdf", ".docx", ".csv"}

\* what loading and chunking the one file did: the loader raised, chunk_text
\* raised, or the chunks of the text
FileOutcomes ==
    {[raises |-> "loader", chunks |-> <<>>], [raises |-> "chunking", chunks |-> <<>>]}
        \cup {[raises |-> "no", chunks |-> cs] : cs \in {<<>>, <<"p">>, <<"p", "q">>}}

\* ingest_single_file without its except clause
IngestSingleFileRaises(file_extension, outcome, add_raised) ==
    IF file_extension \notin {".txt", ".pdf", ".docx"}
    THEN [raised |-> FALSE, loader_called |-> FALSE,
          value |-> [status |-> "error", error |-> <<"Unsupported file type", file_extension>>]]
    ELSE IF outcome.raises /= "no" \/ add_raised
         THEN [raised |-> TRUE, loader_called |-> TRUE, value |-> None]
         ELSE [raised |-> FALSE, loader_called |-> TRUE,
               value |-> [file_path |-> file_extension, total_chunks |-> Len(outcome.chunks),
                          status |-> "success"]]

\* ingest_single_file, ingestion.py lines 100-133; the file_path is its
\* extension, add_raised is whether add_documents raised
ingest_single_file(file_extension, outcome, add_raised) ==
    IF file_extension \notin {".txt", ".pdf", ".docx"}
    THEN [raised |-> FALSE, loader_called |-> FALSE,
          value |-> [status |-> "error", error |-> <<"Unsupported file type", file_extension>>]]
    ELSE IF outcome.raises /= "no" \/ add_raised
         THEN [raised |-> FALSE, loader_called |-> TRUE,
               value |-> [file_path |-> file_extension, status |-> "error",
                          error |-> "str(e)"]]
         ELSE [raised |-> FALSE, loader_called |-> TRUE,
               value |-> [file_path |-> file_extension, total_chunks |-> Len(outcome.chunks),
                          status |-> "success"]]

\* a call of ingest_single_file on the ingestion's store; add_documents is
\* reached when the extension has a loader and loading and chunking returned
IngestSingleFile ==
    \E ext \in Extensions, outcome \in FileOutcomes,
       batch_ok \in BOOLEAN, drv \in DriverOutcomes :
        LET reached == /\ ext \in {".txt", ".pdf", ".docx"}
                       /\ outcome.raises = "no"
            add_raised == reached /\ AddRaises("ingestion", drv)
            r == ingest_single_file(ext, outcome, add_raised)
        IN /\ calls < MaxCalls
           /\ IF reached
              THEN Add("ingestion", outcome.chunks,
                       [i \in 1..Len(outcome.chunks) |-> TRUE], batch_ok, drv)
              ELSE UNCHANGED <<collection, assigned, passed>>
           /\ ret' = [op |-> "ingest_single_file", store |-> "ingestion",
                      file_extension |-> ext, outcome |-> outcome,
                      failed |-> add_raised, before |-> collection,
                      loader_called |-> r.loader_called,
                      raised |-> r.raised, value |-> r.value]
           /\ calls' = calls + 1
           /\ UNCHANGED <<now, generation, stores, chunkVars, embedVars>>

Next ==
    \/ Tick
    \/ AddDocuments
    \/ DeleteCollection
    \/ QueryCall
    \/ GetCollectionStatsCall
    \/ Retrieve

Spec == InitStore /\ [][Next]_vars

NextIngest ==
    \/ Tick
    \/ IngestFromDirectory
    \/ IngestSingleFile

\* DataIngestion.__init__ and DocumentRetriever.__init__ build their
\* VectorStore without a model argument
InitIngest == InitStore /\ stores = [s \in Stores |-> VectorStoreInit(None, None, "ok")]

SpecIngest == InitIngest /\ [][NextIngest]_vars

-----------------------------------------------------------------------------
(* Claims about chunk_text, checked under SpecChunk *)

\* C1: chunk_text terminates on every finite text.  The section loop of
\* chunk_structured_text is over within PassBound(doc) passes: one pass per
\* parsed section and one per character of content, which is all the passes
\* a traversal needs when every re-inserted remainder is shorter than the
\* section it came from and lies ahead of the iterator.
C1_SectionLoopEnds == passes <= PassBound(doc)

\* C2: every chunk chunk_text returns is at most CHUNK_SIZE characters long,
\* on the simple path and on the structured path after split_large_chunk.
C2_ChunksFit ==
    pc = "done" => \A k \in 1..Len(result) : StrLen(result[k]) <= CHUNK_SIZE

\* position i of text lies in the window of some pass of chunk_simple_text
InSomeWindow(i) ==
    \E k \in 1..Len(windows) : windows[k].start <= i /\ i < windows[k].end

\* C3: chunk_simple_text loses no content: when it returns, every position of
\* the text that holds a non-whitespace character lies in the window
\* [start, end) of one of its chunks.
C3_NoContentLost ==
    (pc = "done" /\ windows /= <<>>) =>
        \A i \in 0..(StrLen(text) - 1) :
            CharAt(text, i) \notin Whitespace => InSomeWindow(i)

\* C4: in chunk_simple_text each window starts CHUNK_SIZE - CHUNK_OVERLAP
\* characters after the one before it, and the one before it ends at least
\* CHUNK_OVERLAP characters after that start, wherever its end was snapped to.
C4_WindowsOverlap ==
    \A k \in 1..(Len(windows) - 1) :
        /\ windows[k + 1].start = windows[k].start + CHUNK_SIZE - CHUNK_OVERLAP
        /\ windows[k].end >= windows[k + 1].start + CHUNK_OVERLAP

\* C19: detect_language answers 'en' for a text without a classified
\* character (the empty and the whitespace-only text among them); otherwise
\* it answers a script, 'fa' for the Persian/Arabic range or 'en' for Latin
\* letters, whose share of the classified characters, each counted once,
\* exceeds 0.3, and 'mixed' only when no share does.
C19_DetectsScriptByShare ==
    language /= None =>
        LET persian == FindAll(RawText(doc), PersianChars)
            latin == FindAll(RawText(doc), LatinLetters)
            classified == persian + latin
        IN IF classified = 0 THEN language = "en"
           ELSE /\ language \in {"fa", "en", "mixed"}
                /\ language = "fa" => 10 * persian > 3 * classified
                /\ language = "en" => 10 * latin > 3 * classified
                /\ language = "mixed" => /\ 10 * persian <= 3 * classified
                                         /\ 10 * latin <= 3 * classified

\* C19 witness: a text of one Persian letter and two Latin letters, where
\* both shares exceed 0.3, has been classified
C19_Witness ==
    /\ doc = <<TextSeg(Cat(Run("fa_seen", 1), A(2)))>>
    /\ language = "en"

\* the heading prefix of a chunk: its leading section label, from '[Section: '
\* to the first ']' that ends a line or the chunk; <<>> when it has none
HeadingPrefix(chunk) ==
    LET closes == {k \in 1..Len(chunk) :
                      /\ chunk[k].c = "]"
                      /\ k = Len(chunk) \/ chunk[k + 1].c = "\n"}
    IN IF Take(chunk, StrLen(SectionOpen)) = SectionOpen /\ closes /= {}
       THEN Take(chunk, End(chunk, SetMin(closes)))
       ELSE <<>>

\* the heading markers of a document
Markers(d) == {k \in 1..Len(d) : d[k].kind = "marker"}

\* C20: for a text whose headings are N headings of level 1, the chunks
\* chunk_text returns have at most N + 1 different heading prefixes, no
\* prefix counting as one.
C20_PrefixesWithinHeadings ==
    (pc = "done" /\ \A k \in Markers(doc) : doc[k].level = 1) =>
        Cardinality({HeadingPrefix(result[k]) : k \in 1..Len(result)})
            <= Cardinality(Markers(doc)) + 1

\* C20 witness: a text with two headings of level 1 came back as chunks with
\* three heading prefixes: none and the two section labels
C20_Witness ==
    /\ pc = "done"
    /\ Cardinality(Markers(doc)) = 2
    /\ \A k \in Markers(doc) : doc[k].level = 1
    /\ Cardinality({HeadingPrefix(result[k]) : k \in 1..Len(result)}) = 3
    /\ \E k \in 1..Len(result) : HeadingPrefix(result[k]) = <<>>

-----------------------------------------------------------------------------
(* Claims about the encoders, checked under SpecEmbed *)

\* C8: when the backend call fails, encode_text returns an all-zero vector of
\* the provider's length: 384 under sentence-transformers, 768 under ollama.
C8_ZeroVectorOfProvider ==
    (single_ret /= Unset /\ ~single_ret.ok) =>
        /\ single_ret.vector.zero
        /\ embedding_model.provider = "sentence-transformers" =>
               single_ret.vector.dim = 384
        /\ embedding_model.provider = "ollama" => single_ret.vector.dim = 768

\* C9: every vector encode_texts returned for a list of texts is as long as
\* the vector encode_text returned for one of those texts, whatever backend
\* calls succeeded or failed in either.
C9_BatchAsSequential ==
    (single_ret /= Unset /\ batch_ret /= Unset) =>
        \A i \in 1..Len(batch_ret.texts) :
            batch_ret.texts[i] = single_ret.text =>
                batch_ret.vectors[i].dim = single_ret.vector.dim

\* the provider the constructor of embedding_model dispatched on was
\* sentence-transformers: given as the argument, as the prefix of the model
\* name, or by default
AskedSentenceTransformers ==
    \/ /\ init_call.model_name = None
       /\ init_call.provider \in {None, "sentence-transformers"}
    \/ /\ init_call.model_name /= None
       /\ Len(init_call.model_name) = 1
       /\ init_call.provider \in {None, "sentence-transformers"}
    \/ /\ init_call.model_name /= None
       /\ Len(init_call.model_name) > 1
       /\ init_call.model_name[1] = "sentence-transformers"

\* C11: constructing an EmbeddingModel under the sentence-transformers
\* provider does not raise when the library is missing or the model fails to
\* load; the instance is then the Ollama fallback: provider 'ollama', the
\* configured OLLAMA_EMBEDDING_MODEL as model_name, no model and a client.
C11_InitFallsBack ==
    (AskedSentenceTransformers /\ init_call.load /= "ok") =>
        /\ ~init_call.raised
        /\ embedding_model.provider = "ollama"
        /\ embedding_model.model_name = <<"all-minilm", "latest">>
        /\ embedding_model.model = None
        /\ embedding_model.client /= None

\* C11 witness: the default construction, with the library missing, has
\* answered a call of its fallback
C11_Witness ==
    /\ init_call.model_name = None
    /\ init_call.provider = None
    /\ init_call.load = "ImportError"
    /\ embedding_model.provider = "ollama"
    /\ single_ret /= Unset

\* name occurs in listed, part for part
SubName(name, listed) ==
    \E i \in 0..(Len(listed) - Len(name)) :
        \A j \in 1..Len(name) : listed[i + j] = name[j]

\* the names the service published in a listing
Published(listing) ==
    {listing[i].name : i \in {j \in 1..Len(listing) : listing[j].name /= None}}

\* C12: under the ollama provider check_model_availability returns False when
\* the listing call fails, and otherwise True exactly when the configured
\* model name is, or is part of, a name of the published list.
C12_AvailableIffListed ==
    (avail_ret /= Unset /\ embedding_model.provider = "ollama") =>
        IF avail_ret.listing.raised
        THEN avail_ret.value = FALSE
        ELSE avail_ret.value =
                 (\E l \in Published(avail_ret.listing.models) :
                      SubName(embedding_model.model_name, l))

-----------------------------------------------------------------------------
(* Claims about VectorStore, checked under Spec *)

\* C5: no id is assigned twice by add_documents on one collection, whatever
\* the clock read and whichever VectorStore instance made the call.
C5_IdsUnique ==
    \A id \in BagToSet(assigned) : CopiesIn(id, assigned) = 1

\* C6: the collection has as many members as chunks were handed to the
\* add_documents calls that returned since the last delete_collection that
\* succeeded.
C6_CountIsPassed == Cardinality(collection) = passed

\* C7: the vectors one VectorStore put in the collection all have the same
\* length, the zero vectors stored for failed embedding calls included.
C7_OneDimension ==
    \A m1 \in collection, m2 \in collection :
        m1.by = m2.by => m1.embedding.dim = m2.embedding.dim

C14_StatsAfterDelete ==
    (ret /= Unset /\ ret.op = "get_collection_stats" /\ ret.after_delete) =>
        /\ ret.value.total_documents = 0
        /\ ret.value.collection_name = stores[ret.store].collection_name
        /\ ret.drv = "ok" => ret.value.status = "active"

\* C14 witness: after calls of add_documents, a delete_collection that
\* returned True was followed by a get_collection_stats that reported 'active'
C14_Witness ==
    /\ ret /= Unset
    /\ ret.op = "get_collection_stats"
    /\ ret.after_delete
    /\ calls > 0
    /\ ret.value.status = "active"

\* C15: delete_collection and get_collection_stats do not raise: when the
\* driver fails delete_collection returns False and get_collection_stats
\* returns status 'error' with an error text and 0 as total_documents.
C15_StoreCallsReturn ==
    /\ (ret /= Unset /\ ret.op = "delete_collection") =>
           /\ ~ret.raised
           /\ ret.failed => ret.value = FALSE
    /\ (ret /= Unset /\ ret.op = "get_collection_stats") =>
           /\ ~ret.raised
           /\ ret.failed => /\ ret.value.status = "error"
                             /\ "error" \in DOMAIN ret.value
                             /\ ret.value.total_documents = 0

\* C15 witness: get_collection_stats has answered a failing count on a
\* collection that has members
C15_Witness ==
    /\ ret /= Unset
    /\ ret.op = "get_collection_stats"
    /\ ret.failed
    /\ collection /= {}
    /\ ret.value.status = "error"

\* C16: retrieve_relevant_documents lets no exception through: it returns the
\* empty list when query raised, and the empty list on an empty collection.
C16_RetrieveReturns ==
    (ret /= Unset /\ ret.op = "retrieve_relevant_documents") =>
        /\ ~ret.raised
        /\ ret.failed => ret.value = <<>>
        /\ collection = {} => ret.value = <<>>

\* C16 witness: retrieve_relevant_documents has returned the empty list for a
\* query that raised on a collection with members
C16_Witness ==
    /\ ret /= Unset
    /\ ret.op = "retrieve_relevant_documents"
    /\ ret.failed
    /\ collection /= {}
    /\ ret.value = <<>>

-----------------------------------------------------------------------------
(* Claims about DataIngestion, checked under SpecIngest *)

\* C10: no exception leaves ingest_from_directory: when the bulk insert
\* fails, the call still returns a value.
C10_IngestReturns ==
    (ret /= Unset /\ ret.op = "ingest_from_directory") => ~ret.raised

\* the positions of file_types that name a type with a loader
Loadable(file_types) ==
    {i \in 1..Len(file_types) : file_types[i] \in {"txt", "pdf", "docx"}}

\* C17: in ingest_from_directory a loader that raises is caught and counted
\* in failed_files and its type is not among file_types_processed, while
\* every other requested type with a loader is processed and each chunk of
\* each of its texts is in the one list handed to add_documents.
C17_LoaderFailureIsolated ==
    (ret /= Unset /\ ret.op = "ingest_from_directory") =>
        LET fts == ret.file_types
            processed == {ret.results.file_types_processed[i] :
                             i \in 1..Len(ret.results.file_types_processed)}
        IN /\ ret.results.failed_files =
                  Cardinality({i \in Loadable(fts) : ret.loader[fts[i]] = "raise"})
           /\ \A i \in Loadable(fts) :
                  IF ret.loader[fts[i]] = "raise"
                  THEN fts[i] \notin processed
                  ELSE /\ fts[i] \in processed
                       /\ \A j \in 1..Len(ret.loader[fts[i]]) :
                              \A k \in 1..Len(ret.loader[fts[i]][j]) :
                                  /\ ret.chunks /= None
                                  /\ \E n \in 1..Len(ret.chunks) :
                                         ret.chunks[n] = ret.loader[fts[i]][j][k]
           /\ ret.chunks /= None => ret.results.total_chunks = Len(ret.chunks)

\* C17 witness: the pdf loader raised, the txt and docx loaders returned
\* different texts, and both texts were handed to add_documents
C17_Witness ==
    /\ ret /= Unset
    /\ ret.op = "ingest_from_directory"
    /\ ret.file_types = <<"txt", "pdf", "docx">>
    /\ ret.loader["pdf"] = "raise"
    /\ ret.loader["txt"] = <<<<"p">>>>
    /\ ret.loader["docx"] = <<<<"q">>>>
    /\ ret.results.failed_files = 1
    /\ ret.chunks = <<"p", "q">>

\* C18: ingest_single_file does not raise: for an extension without a loader
\* it returns status 'error' without calling a loader and without changing
\* the collection, and an exception of the loader, of chunking or of the
\* store comes back as status 'error' with the error text.
C18_SingleFileReturns ==
    (ret /= Unset /\ ret.op = "ingest_single_file") =>
        /\ ~ret.raised
        /\ ret.file_extension \notin {".txt", ".pdf", ".docx"} =>
               /\ ret.value.status = "error"
               /\ ~ret.loader_called
               /\ collection = ret.before
        /\ (ret.outcome.raises /= "no" \/ ret.failed) =>
               /\ ret.value.status = "error"
               /\ "error" \in DOMAIN ret.value

\* C18 witness: add_documents raised under ingest_single_file, which
\* returned status 'error'
C18_Witness ==
    /\ ret /= Unset
    /\ ret.op = "ingest_single_file"
    /\ ret.failed
    /\ ret.value.status = "error"

-----------------------------------------------------------------------------
(* Further claims about chunk_text, checked under SpecChunk *)

\* C21: normalize_persian_text is a character-wise map: the text chunk_text
\* goes on with is the input with every Persian digit, comma, semicolon and
\* question mark replaced by its ASCII equivalent and every other character,
\* leading and trailing whitespace included, unchanged.
C21_NormalizeIsCharwise ==
    pc /= "call" => text = ReplaceChars(RawText(doc))

\* C22: when the section loop splits a content section, the remainder goes
\* into the list right after the section being processed, the sections up to
\* that one and the sections after it staying as they are: the remainder is
\* the next section processed and no section is processed twice, also when
\* two content sections have the same text.
C22_RemainderIsNext ==
    [][(pc = "loop" /\ pc' = "loop" /\ sections' /= sections) =>
          /\ Len(sections') = Len(sections) + 1
          /\ \A k \in 1..(idx + 1) : sections'[k] = sections[k]
          /\ sections'[idx + 2].type = "content"
          /\ \A k \in (idx + 2)..Len(sections) : sections'[k + 1] = sections[k]]_vars

RECURSIVE StacksFrom(_, _)
\* the heading stacks the section loop goes through on secs, starting from hc
StacksFrom(secs, hc) ==
    IF secs = <<>> THEN {}
    ELSE IF secs[1].type = "heading"
    THEN {PushHeading(hc, secs[1])} \cup StacksFrom(Tail(secs), PushHeading(hc, secs[1]))
    ELSE StacksFrom(Tail(secs), hc)

\* the section loop came to its end and its chunks, at least one, were
\* returned
StructuredResult ==
    pc = "done" /\ sections /= <<>> /\ windows = <<>> /\ result /= <<>>

\* C23: when all the content of a text follows a heading, every chunk that
\* structured segmentation returns begins with '[Section: ', the titles of
\* one of the text's heading stacks joined by ' > ', and ']', the pieces of
\* a chunk split in post-processing included.
C23_ChunksCarryLabel ==
    (StructuredResult /\ sections[1].type = "heading") =>
        \A k \in 1..Len(result) :
            \E hc \in StacksFrom(sections, <<>>) :
                LET label == Cat(Cat(SectionOpen, JoinTitles(hc)), FromChars(<<"]">>))
                IN Take(result[k], StrLen(label)) = label

\* C24: in the section loop a current chunk closed at a heading is emitted
\* only if its trimmed length exceeds 100 characters, and one closed because
\* the next content would take it past CHUNK_SIZE * 1.5 only if its trimmed
\* length exceeds 50.
C24_ClosingFloors ==
    [][(pc = "loop" /\ idx' = idx + 1 /\ Len(chunks') > Len(chunks)) =>
          StrLen(Strip(current_chunk)) >
              (IF sections[idx + 1].type = "heading" THEN 100 ELSE 50)]_vars

-----------------------------------------------------------------------------
(* Further claims about the encoders and the store *)

\* C25: an EmbeddingModel constructed with provider 'ollama' or
\* 'sentence-transformers' and a model name, a name with a ':tag' suffix
\* included, has one of these two as its provider, and as its model_name the
\* name asked for, or OLLAMA_EMBEDDING_MODEL after a failed load.
C25_ProviderAndNameKept ==
    (init_call /= Unset
     /\ init_call.provider \in {"ollama", "sentence-transformers"}
     /\ init_call.model_name /= None) =>
        /\ embedding_model.provider \in {"ollama", "sentence-transformers"}
        /\ \/ embedding_model.model_name = init_call.model_name
           \/ /\ init_call.load /= "ok"
              /\ embedding_model.model_name = OLLAMA_EMBEDDING_MODEL

-----------------------------------------------------------------------------
(* Further claims about the section loop, checked under SpecChunk *)

\* C26: after the section loop has processed a heading, the levels of
\* heading_context increase strictly from bottom to top, its top is that
\* heading, and below the top are the entries it held before whose level is
\* lower than the heading's, in their order and no others.
C26_StackAfterHeading ==
    [][(pc = "loop" /\ idx' = idx + 1 /\ sections[idx + 1].type = "heading") =>
          LET sec == sections[idx + 1]
              n == Len(heading_context')
          IN /\ n >= 1
             /\ heading_context'[n] = [level |-> sec.level, text |-> sec.text]
             /\ \A i \in 1..(n - 1) :
                    heading_context'[i].level < heading_context'[i + 1].level
             /\ n - 1 <= Len(heading_context)
             /\ \A i \in 1..(n - 1) : heading_context'[i] = heading_context[i]
             /\ \A i \in n..Len(heading_context) :
                    heading_context[i].level >= sec.level]_vars

\* C26 witness: a heading of level 1 came after headings of levels 2 and 3
\* and took both off the stack
C26_Witness ==
    /\ pc = "loop"
    /\ Len(sections) >= 5
    /\ sections[1].type = "heading" /\ sections[1].level = 2
    /\ sections[3].type = "heading" /\ sections[3].level = 3
    /\ sections[5].type = "heading" /\ sections[5].level = 1
    /\ idx >= 5
    /\ heading_context = <<[level |-> 1, text |-> Run("T", 1)]>>

\* the text has heading markers, so chunk_text went to chunk_structured_text
HasMarkers == \E k \in 1..Len(doc) : doc[k].kind = "marker"

\* C27 as first stated: no chunk chunk_text returns for a text with heading
\* markers has a trimmed length of 50 characters or less.
C27_NoSmallChunk ==
    (pc = "done" /\ HasMarkers) =>
        \A k \in 1..Len(result) : StrLen(Strip(result[k])) > 50

\* C27: when the section loop is left with at least one chunk after
\* post-processing and the filter, no chunk returned has a trimmed length of
\* 50 characters or less.
C27_NoSmallStructuredChunk ==
    StructuredResult =>
        \A k \in 1..Len(result) : StrLen(Strip(result[k])) > 50

\* C27 witness: post-processing cut a piece of 50 characters or less, and
\* the chunks returned are without it
C27_Witness ==
    /\ StructuredResult
    /\ \E k \in 1..Len(PostProcess(chunks)) : StrLen(Strip(PostProcess(chunks)[k])) <= 50
    /\ Len(result) < Len(PostProcess(chunks))
    /\ result /= <<>>

\* the chunks of simple segmentation of t: the trimmed windows that start at
\* 0, CHUNK_SIZE - CHUNK_OVERLAP, ... below the length of t, the empty ones
\* left out
SimpleChunksOf(t) ==
    LET step == CHUNK_SIZE - CHUNK_OVERLAP
        n == IF t = <<>> THEN 0 ELSE ((StrLen(t) - 1) \div step) + 1
        window(k) == Strip(Slice(t, (k - 1) * step, SimpleWindowEnd(t, (k - 1) * step)))
    IN SelectSeq([k \in 1..n |-> window(k)], LAMBDA c : c /= <<>>)

\* C28: when chunk_structured_text is left with no chunk of its own, because
\* no section was parsed or because the filter removed every chunk, it
\* returns the chunks of chunk_simple_text on the whole of its text.
C28_FallbackIsSimple ==
    (pc = "done" /\ Contains(text, MarkerLiteral) /\ ~StructuredResult) =>
        result = SimpleChunksOf(text)

\* C28 witness: a heading with five characters under it came back as one
\* chunk, the whole text with its markers
C28_Witness ==
    /\ pc = "done"
    /\ doc = <<MarkerSeg(1, Run("T", 1)), TextSeg(A(5))>>
    /\ sections /= <<>>
    /\ idx >= Len(sections)
    /\ result = <<RawText(doc)>>

-----------------------------------------------------------------------------
(* A further claim about VectorStore, checked under Spec *)

\* C30: a delete_collection that deleted the collection leaves every
\* VectorStore other than the one it was called on as it was, its handle
\* still the collection from before the delete; only the caller's handle is
\* the collection made anew, when the call returned True.
C30_OnlyCallerRebinds ==
    [][generation' /= generation =>
          /\ \A t \in Stores \ {ret'.store} : stores'[t] = stores[t]
          /\ ret'.value = TRUE =>
                 /\ stores'[ret'.store].collection = generation'
                 /\ stores[ret'.store].collection /= generation']_vars

\* C30 witness: delete_collection returned True to one store and the other
\* store holds the collection that was deleted
C30_Witness ==
    /\ ret /= Unset
    /\ ret.op = "delete_collection"
    /\ ret.value = TRUE
    /\ stores[ret.store].collection = generation
    /\ \E t \in Stores \ {ret.store} : stores[t].collection = generation - 1

=============================================================================
